---------------------------- MODULE Spec2Model ----------------------------
(***************************************************************************)
(* A model of pushmatic (src/src/index.js): the four static operations of  *)
(* class Pushmatic, the promises they return and the host capabilities     *)
(* (Notification, navigator.serviceWorker, registration.pushManager) they  *)
(* call.  A call is one invocation of one operation by the page; the host  *)
(* answers each capability call later, in any order.                       *)
(***************************************************************************)
EXTENDS Naturals, Sequences, FiniteSets, TLC

(* Number of calls the page makes in one run. *)
MaxCalls == 2

Calls == 1 .. MaxCalls

(* ------------------------------ values -------------------------------- *)

(* The JavaScript value undefined. *)
Undefined == "undefined"

Urls == {"/sw.js"}

Options == {"optionsA", "optionsB"}

(* Registration objects the host can hand out: with and without a         *)
(* pushManager property.                                                   *)
RegWithPushManager == {"regA", "regB"}

RegWithoutPushManager == {"regNoPush"}

Registrations == RegWithPushManager \cup RegWithoutPushManager

(* registration.pushManager: the registration's push manager, or undefined *)
PushManager(registration) ==
  IF registration \in RegWithPushManager THEN registration ELSE Undefined

Subscriptions == {"subA", "subB"}

(* Notification.permission values, which are also what the host's         *)
(* requestPermission promise resolves with.                                *)
PermissionStatus == {"granted", "denied", "default"}

(* ------------------------------ errors -------------------------------- *)

NoError == [name |-> "", message |-> ""]

NewError(msg) == [name |-> "Error", message |-> msg]

ErrNotificationsUnsupported == NewError("This browser does not support notifications.")

ErrPermissionNotGranted == NewError("Notification permission not granted.")

ErrServiceWorkerUnsupported == NewError("Service Workers are not supported in this browser.")

ErrPushUnsupported == NewError("Push messaging is not supported in this browser.")

ErrPermissionIsNotGranted == NewError("Notification permission is not granted.")

(* Evaluating the identifier Notification when the global is absent.       *)
ErrNotificationUndefined == [name |-> "ReferenceError", message |-> "Notification is not defined"]

(* Failures the host may deliver, per capability. *)
RegisterErrors == {[name |-> "SecurityError", message |-> "Registration failed"]}

PermissionErrors == {[name |-> "TypeError", message |-> "Permission error"]}

SubscribeErrors == {[name |-> "AbortError", message |-> "Subscription failed"]}

HostErrors == RegisterErrors \cup PermissionErrors \cup SubscribeErrors

LibraryErrors == {ErrNotificationsUnsupported, ErrPermissionNotGranted,
                  ErrServiceWorkerUnsupported, ErrPushUnsupported,
                  ErrPermissionIsNotGranted}

(* ------------------------------ promises ------------------------------ *)

Unstarted == [state |-> "unstarted", value |-> Undefined, error |-> NoError]

Pending == [state |-> "pending", value |-> Undefined, error |-> NoError]

Resolved(v) == [state |-> "resolved", value |-> v, error |-> NoError]

Rejected(e) == [state |-> "rejected", value |-> Undefined, error |-> e]

Settled(p) == p.state \in {"resolved", "rejected"}

(* One call into a host capability and the host's answer to it. *)
(* on: the object the method is called on; arg: its argument.             *)
HostCall(cap, on, arg) == [cap |-> cap, on |-> on, arg |-> arg, state |-> "pending",
                           value |-> Undefined, error |-> NoError]

NoSteps == [register |-> Unstarted, permission |-> Unstarted, subscribe |-> Unstarted]

(* ------------------------------- state -------------------------------- *)

VARIABLES
  hasNotification,   \* "Notification" in window
  hasServiceWorker,  \* "serviceWorker" in navigator
  permission,        \* Notification.permission
  op,                \* op[c]: the operation call c invoked, "none" before the call
  url,               \* url[c]: scriptURL / serviceWorkerUrl argument
  regArg,            \* regArg[c]: registration argument of a direct subscribeToPush
  options,           \* options[c]: options argument
  step,              \* step[c]: the promises of the primitive operations run by call c
  hostLog,           \* hostLog[c]: the host capability calls made by call c, in order
  promise            \* promise[c]: the promise returned to the caller of call c

vars == <<hasNotification, hasServiceWorker, permission, op, url, regArg,
          options, step, hostLog, promise>>

hostVars == <<hasNotification, hasServiceWorker>>

Init ==
  /\ hasNotification \in BOOLEAN
  /\ hasServiceWorker \in BOOLEAN
  /\ permission \in (IF hasNotification THEN PermissionStatus ELSE {Undefined})
  /\ op = [c \in Calls |-> "none"]
  /\ url = [c \in Calls |-> Undefined]
  /\ regArg = [c \in Calls |-> Undefined]
  /\ options = [c \in Calls |-> Undefined]
  /\ step = [c \in Calls |-> NoSteps]
  /\ hostLog = [c \in Calls |-> << >>]
  /\ promise = [c \in Calls |-> Unstarted]

(* ------------------- the executors of the primitives ------------------ *)
(* Each gives the state of the promise when the executor returns and the   *)
(* host calls it made.                                                     *)

(* Variant: the permission is asked for twice (callback form and promise  *)
(* form of Notification.requestPermission).                                *)
RequestPermissionExecutorPromptsTwice ==
  IF ~hasNotification
    THEN [promise |-> Rejected(ErrNotificationsUnsupported), invoke |-> << >>]
    ELSE [promise |-> Pending,
          invoke |-> << HostCall("requestPermission", "Notification", Undefined),
                        HostCall("requestPermission", "Notification", Undefined) >>]

RequestPermissionExecutor ==
  IF ~hasNotification
    THEN [promise |-> Rejected(ErrNotificationsUnsupported), invoke |-> << >>]
    ELSE [promise |-> Pending,
          invoke |-> << HostCall("requestPermission", "Notification", Undefined) >>]

(* Variant: a registration already asked for by another call is reused    *)
(* instead of calling the host again.                                      *)
RegisterServiceWorkerExecutorShared(scriptURL) ==
  IF ~hasServiceWorker
    THEN [promise |-> Rejected(ErrServiceWorkerUnsupported), invoke |-> << >>]
  ELSE IF \E d \in Calls : \E i \in 1 .. Len(hostLog[d]) : hostLog[d][i].cap = "register"
    THEN [promise |-> Pending, invoke |-> << >>]
  ELSE [promise |-> Pending,
        invoke |-> << HostCall("register", "navigator.serviceWorker", scriptURL) >>]

(* Variant: the presence check of navigator.serviceWorker is missing.      *)
RegisterServiceWorkerExecutorUnchecked(scriptURL) ==
  [promise |-> Pending,
   invoke |-> << HostCall("register", "navigator.serviceWorker", scriptURL) >>]

RegisterServiceWorkerExecutor(scriptURL) ==
  IF ~hasServiceWorker
    THEN [promise |-> Rejected(ErrServiceWorkerUnsupported), invoke |-> << >>]
    ELSE [promise |-> Pending,
          invoke |-> << HostCall("register", "navigator.serviceWorker", scriptURL) >>]

(* Variant: the permission check rejects without returning, so the host   *)
(* is called all the same.                                                 *)
SubscribeToPushExecutorNoReturn(registration, opts) ==
  IF PushManager(registration) = Undefined
    THEN [promise |-> Rejected(ErrPushUnsupported), invoke |-> << >>]
  ELSE IF ~hasNotification
    THEN [promise |-> Rejected(ErrNotificationUndefined), invoke |-> << >>]
  ELSE [promise |-> IF permission # "granted"
                      THEN Rejected(ErrPermissionIsNotGranted) ELSE Pending,
        invoke |-> << HostCall("subscribe", PushManager(registration), opts) >>]

(* Variant: the permission is checked before the push manager.             *)
SubscribeToPushExecutorPermissionFirst(registration, opts) ==
  IF ~hasNotification
    THEN [promise |-> Rejected(ErrNotificationUndefined), invoke |-> << >>]
  ELSE IF permission # "granted"
    THEN [promise |-> Rejected(ErrPermissionIsNotGranted), invoke |-> << >>]
  ELSE IF PushManager(registration) = Undefined
    THEN [promise |-> Rejected(ErrPushUnsupported), invoke |-> << >>]
  ELSE [promise |-> Pending,
        invoke |-> << HostCall("subscribe", PushManager(registration), opts) >>]

(* Variant: the Notification.permission check is missing.                  *)
SubscribeToPushExecutorNoPermissionCheck(registration, opts) ==
  IF PushManager(registration) = Undefined
    THEN [promise |-> Rejected(ErrPushUnsupported), invoke |-> << >>]
    ELSE [promise |-> Pending,
          invoke |-> << HostCall("subscribe", PushManager(registration), opts) >>]

SubscribeToPushExecutor(registration, opts) ==
  IF PushManager(registration) = Undefined
    THEN [promise |-> Rejected(ErrPushUnsupported), invoke |-> << >>]
  ELSE IF ~hasNotification
    THEN [promise |-> Rejected(ErrNotificationUndefined), invoke |-> << >>]
  ELSE IF permission # "granted"
    THEN [promise |-> Rejected(ErrPermissionIsNotGranted), invoke |-> << >>]
  ELSE [promise |-> Pending,
        invoke |-> << HostCall("subscribe", PushManager(registration), opts) >>]

(* ------------------- the handlers of the host's answers --------------- *)

(* Variant: the rejection carries the status the host answered with.       *)
PermissionThenCarriesStatus(status) ==
  IF status = "granted"
    THEN Resolved(status)
    ELSE Rejected([name |-> "Error", message |-> "Notification permission not granted.",
                   status |-> status])

(* Variant: only "denied" is refused (permission !== "denied").            *)
PermissionThenOnlyDeniedRejects(status) ==
  IF status # "denied" THEN Resolved(status) ELSE Rejected(ErrPermissionNotGranted)

PermissionThen(status) ==
  IF status = "granted" THEN Resolved(status) ELSE Rejected(ErrPermissionNotGranted)

(* Notification.requestPermission().then(cb) has no rejection handler: the *)
(* promise of requestPermission is left as it is.                          *)
PermissionCatch(p, e) == p

RegisterThen(registration) == Resolved(registration)

(* Variant: the host's error is wrapped in a new error.                    *)
RegisterCatchWrapped(e) ==
  Rejected([name |-> "RegistrationFailed", message |-> e.message, cause |-> e])

RegisterCatch(e) == Rejected(e)

(* Variant: .then(() => resolve()) drops the subscription.                 *)
SubscribeThenDropsValue(subscription) == Resolved(Undefined)

SubscribeThen(subscription) == Resolved(subscription)

SubscribeCatch(e) == Rejected(e)

(* ------------------- initializePushNotifications ---------------------- *)

(* The promise of registerServiceWorker(..).then(f).then(g): a rejection   *)
(* of a step passes through the later then()s, which have no rejection     *)
(* handler; otherwise it follows the promise g returned.                   *)
(* Variant: the second then callback does not return the promise of       *)
(* subscribeToPush, so the chain does not wait for it.                     *)
InitializePromiseNoReturn(st) ==
  IF st.register.state # "resolved" THEN st.register
  ELSE IF st.permission.state # "resolved" THEN st.permission
  ELSE Resolved(Undefined)

(* Variant: a failed step is reported as a new, generic error.             *)
InitializePromiseGenericError(st) ==
  LET p == IF st.register.state # "resolved" THEN st.register
           ELSE IF st.permission.state # "resolved" THEN st.permission
           ELSE st.subscribe
  IN  IF p.state = "rejected"
        THEN Rejected(NewError("Push notifications could not be initialized."))
        ELSE p

InitializePromise(st) ==
  IF st.register.state # "resolved" THEN st.register
  ELSE IF st.permission.state # "resolved" THEN st.permission
  ELSE st.subscribe

(* Variant: the permission request is started together with registration *)
(* being handed on, and the subscription does not wait for its answer.     *)
InitializeAfterRegisterNoWait(st) ==
  LET r == RequestPermissionExecutor
      s == SubscribeToPushExecutor(st.register.value, Undefined)
  IN  [steps |-> [st EXCEPT !.permission = r.promise, !.subscribe = s.promise],
       invoke |-> r.invoke \o s.invoke]

(* (registration) => this.requestPermission().then(() => registration)     *)
InitializeAfterRegister(st) ==
  LET r == RequestPermissionExecutor
  IN  [steps |-> [st EXCEPT !.permission = r.promise], invoke |-> r.invoke]

(* Variant: step 3 trusts the "granted" of step 2 and does not read        *)
(* Notification.permission again.                                          *)
InitializeAfterPermissionTrustsStep2(st, opts) ==
  LET r == SubscribeToPushExecutorNoPermissionCheck(st.register.value, opts)
  IN  [steps |-> [st EXCEPT !.subscribe = r.promise], invoke |-> r.invoke]

(* Variant: the options are not handed to subscribeToPush.                 *)
InitializeAfterPermissionNoOptions(st, opts) ==
  LET r == SubscribeToPushExecutor(st.register.value, Undefined)
  IN  [steps |-> [st EXCEPT !.subscribe = r.promise], invoke |-> r.invoke]

(* (registration) => this.subscribeToPush(registration, options)           *)
InitializeAfterPermission(st, opts) ==
  LET r == SubscribeToPushExecutor(st.register.value, opts)
  IN  [steps |-> [st EXCEPT !.subscribe = r.promise], invoke |-> r.invoke]

(* What the caller holds: the primitive's own promise, or the chain's.     *)
ReturnedPromise(o, st) ==
  CASE o = "requestPermission" -> st.permission
    [] o = "registerServiceWorker" -> st.register
    [] o = "subscribeToPush" -> st.subscribe
    [] o = "initializePushNotifications" -> InitializePromise(st)
    [] OTHER -> Unstarted

(* ------------------------------ helpers ------------------------------- *)

(* Call ids are handed out in order. *)
CanStart(c) == op[c] = "none" /\ \A d \in Calls : d < c => op[d] # "none"

HasPending(c, cap) ==
  /\ Len(hostLog[c]) > 0
  /\ hostLog[c][Len(hostLog[c])].cap = cap
  /\ hostLog[c][Len(hostLog[c])].state = "pending"

Answer(lg, st, v, e) ==
  [lg EXCEPT ![Len(lg)] = [@ EXCEPT !.state = st, !.value = v, !.error = e]]

(* ------------------------------ actions ------------------------------- *)

CallRequestPermission(c) ==
  /\ CanStart(c)
  /\ LET r == RequestPermissionExecutor
         st == [NoSteps EXCEPT !.permission = r.promise]
     IN  /\ op' = [op EXCEPT ![c] = "requestPermission"]
         /\ step' = [step EXCEPT ![c] = st]
         /\ hostLog' = [hostLog EXCEPT ![c] = r.invoke]
         /\ promise' = [promise EXCEPT ![c] = ReturnedPromise("requestPermission", st)]
  /\ UNCHANGED <<hostVars, permission, url, regArg, options>>

CallRegisterServiceWorker(c, scriptURL) ==
  /\ CanStart(c)
  /\ LET r == RegisterServiceWorkerExecutor(scriptURL)
         st == [NoSteps EXCEPT !.register = r.promise]
     IN  /\ op' = [op EXCEPT ![c] = "registerServiceWorker"]
         /\ url' = [url EXCEPT ![c] = scriptURL]
         /\ step' = [step EXCEPT ![c] = st]
         /\ hostLog' = [hostLog EXCEPT ![c] = r.invoke]
         /\ promise' = [promise EXCEPT ![c] = ReturnedPromise("registerServiceWorker", st)]
  /\ UNCHANGED <<hostVars, permission, regArg, options>>

CallSubscribeToPush(c, registration, opts) ==
  /\ CanStart(c)
  /\ LET r == SubscribeToPushExecutor(registration, opts)
         st == [NoSteps EXCEPT !.subscribe = r.promise]
     IN  /\ op' = [op EXCEPT ![c] = "subscribeToPush"]
         /\ regArg' = [regArg EXCEPT ![c] = registration]
         /\ options' = [options EXCEPT ![c] = opts]
         /\ step' = [step EXCEPT ![c] = st]
         /\ hostLog' = [hostLog EXCEPT ![c] = r.invoke]
         /\ promise' = [promise EXCEPT ![c] = ReturnedPromise("subscribeToPush", st)]
  /\ UNCHANGED <<hostVars, permission, url>>

CallInitializePushNotifications(c, serviceWorkerUrl, opts) ==
  /\ CanStart(c)
  /\ LET r == RegisterServiceWorkerExecutor(serviceWorkerUrl)
         st == [NoSteps EXCEPT !.register = r.promise]
     IN  /\ op' = [op EXCEPT ![c] = "initializePushNotifications"]
         /\ url' = [url EXCEPT ![c] = serviceWorkerUrl]
         /\ options' = [options EXCEPT ![c] = opts]
         /\ step' = [step EXCEPT ![c] = st]
         /\ hostLog' = [hostLog EXCEPT ![c] = r.invoke]
         /\ promise' = [promise EXCEPT ![c] =
                          ReturnedPromise("initializePushNotifications", st)]
  /\ UNCHANGED <<hostVars, permission, regArg>>

(* navigator.serviceWorker.register(..) resolves with a registration.      *)
HostRegisterResolves(c, registration) ==
  /\ HasPending(c, "register")
  /\ LET lg == Answer(hostLog[c], "resolved", registration, NoError)
         st == [step[c] EXCEPT !.register = RegisterThen(registration)]
         nx == IF op[c] = "initializePushNotifications" /\ st.register.state = "resolved"
                 THEN InitializeAfterRegister(st)
                 ELSE [steps |-> st, invoke |-> << >>]
     IN  /\ hostLog' = [hostLog EXCEPT ![c] = lg \o nx.invoke]
         /\ step' = [step EXCEPT ![c] = nx.steps]
         /\ promise' = [promise EXCEPT ![c] = ReturnedPromise(op[c], nx.steps)]
  /\ UNCHANGED <<hostVars, permission, op, url, regArg, options>>

HostRegisterRejects(c, e) ==
  /\ HasPending(c, "register")
  /\ LET st == [step[c] EXCEPT !.register = RegisterCatch(e)]
     IN  /\ hostLog' = [hostLog EXCEPT ![c] = Answer(@, "rejected", Undefined, e)]
         /\ step' = [step EXCEPT ![c] = st]
         /\ promise' = [promise EXCEPT ![c] = ReturnedPromise(op[c], st)]
  /\ UNCHANGED <<hostVars, permission, op, url, regArg, options>>

(* Notification.requestPermission() resolves with a status.                *)
HostPermissionResolves(c, status) ==
  /\ HasPending(c, "requestPermission")
  /\ LET lg == Answer(hostLog[c], "resolved", status, NoError)
         st == [step[c] EXCEPT !.permission = PermissionThen(status)]
         nx == IF op[c] = "initializePushNotifications" /\ st.permission.state = "resolved"
                 THEN InitializeAfterPermission(st, options[c])
                 ELSE [steps |-> st, invoke |-> << >>]
     IN  /\ hostLog' = [hostLog EXCEPT ![c] = lg \o nx.invoke]
         /\ step' = [step EXCEPT ![c] = nx.steps]
         /\ promise' = [promise EXCEPT ![c] = ReturnedPromise(op[c], nx.steps)]
  /\ UNCHANGED <<hostVars, permission, op, url, regArg, options>>

HostPermissionRejects(c, e) ==
  /\ HasPending(c, "requestPermission")
  /\ LET st == [step[c] EXCEPT !.permission = PermissionCatch(@, e)]
     IN  /\ hostLog' = [hostLog EXCEPT ![c] = Answer(@, "rejected", Undefined, e)]
         /\ step' = [step EXCEPT ![c] = st]
         /\ promise' = [promise EXCEPT ![c] = ReturnedPromise(op[c], st)]
  /\ UNCHANGED <<hostVars, permission, op, url, regArg, options>>

(* registration.pushManager.subscribe(options) resolves.                   *)
HostSubscribeResolves(c, subscription) ==
  /\ HasPending(c, "subscribe")
  /\ LET st == [step[c] EXCEPT !.subscribe = SubscribeThen(subscription)]
     IN  /\ hostLog' = [hostLog EXCEPT ![c] = Answer(@, "resolved", subscription, NoError)]
         /\ step' = [step EXCEPT ![c] = st]
         /\ promise' = [promise EXCEPT ![c] = ReturnedPromise(op[c], st)]
  /\ UNCHANGED <<hostVars, permission, op, url, regArg, options>>

HostSubscribeRejects(c, e) ==
  /\ HasPending(c, "subscribe")
  /\ LET st == [step[c] EXCEPT !.subscribe = SubscribeCatch(e)]
     IN  /\ hostLog' = [hostLog EXCEPT ![c] = Answer(@, "rejected", Undefined, e)]
         /\ step' = [step EXCEPT ![c] = st]
         /\ promise' = [promise EXCEPT ![c] = ReturnedPromise(op[c], st)]
  /\ UNCHANGED <<hostVars, permission, op, url, regArg, options>>

(* The user or the browser changes the recorded permission.                *)
HostSetPermission(status) ==
  /\ hasNotification
  /\ permission # status
  /\ permission' = status
  /\ UNCHANGED <<hostVars, op, url, regArg, options, step, hostLog, promise>>

Next ==
  \/ \E c \in Calls : CallRequestPermission(c)
  \/ \E c \in Calls, u \in Urls : CallRegisterServiceWorker(c, u)
  \/ \E c \in Calls, r \in Registrations, o \in Options : CallSubscribeToPush(c, r, o)
  \/ \E c \in Calls, u \in Urls, o \in Options : CallInitializePushNotifications(c, u, o)
  \/ \E c \in Calls, r \in Registrations : HostRegisterResolves(c, r)
  \/ \E c \in Calls, e \in RegisterErrors : HostRegisterRejects(c, e)
  \/ \E c \in Calls, s \in PermissionStatus : HostPermissionResolves(c, s)
  \/ \E c \in Calls, e \in PermissionErrors : HostPermissionRejects(c, e)
  \/ \E c \in Calls, s \in Subscriptions : HostSubscribeResolves(c, s)
  \/ \E c \in Calls, e \in SubscribeErrors : HostSubscribeRejects(c, e)
  \/ \E s \in PermissionStatus : HostSetPermission(s)

Spec == Init /\ [][Next]_vars

(* ======================= properties of the library ==================== *)

InitCalls == {c \in Calls : op[c] = "initializePushNotifications"}

Caps(lg) == [i \in 1 .. Len(lg) |-> lg[i].cap]

IsPrefix(s, t) == Len(s) <= Len(t) /\ \A i \in 1 .. Len(s) : s[i] = t[i]

PipelineOrder == << "register", "requestPermission", "subscribe" >>

HasCall(c, cap) == \E i \in 1 .. Len(hostLog[c]) : hostLog[c][i].cap = cap

InFlight(c) == \E i \in 1 .. Len(hostLog[c]) : hostLog[c][i].state = "pending"

(* C1: in every initializePushNotifications call the host calls are made   *)
(* in the order register, requestPermission, subscribe; when a host call   *)
(* is made every earlier one of the call has resolved (the permission      *)
(* request with "granted"), so at most one host call is in flight and it   *)
(* is the latest one.                                                      *)
C1_StepOrder ==
  \A c \in InitCalls :
    /\ IsPrefix(Caps(hostLog[c]), PipelineOrder)
    /\ \A i \in 1 .. Len(hostLog[c]) :
         i < Len(hostLog[c]) => hostLog[c][i].state = "resolved"
    /\ Len(hostLog[c]) = 3 => hostLog[c][2].value = "granted"

C1_Witness ==
  \E c \in InitCalls : Len(hostLog[c]) = 3 /\ hostLog[c][3].state = "pending"

(* C2: when a step of initializePushNotifications rejects, no later step   *)
(* is started and no later host capability is called, and the returned     *)
(* promise is rejected with the very error of that step.                   *)
C2_FailFast ==
  \A c \in InitCalls :
    /\ step[c].register.state = "rejected" =>
         /\ promise[c] = Rejected(step[c].register.error)
         /\ step[c].permission = Unstarted /\ step[c].subscribe = Unstarted
         /\ ~HasCall(c, "requestPermission") /\ ~HasCall(c, "subscribe")
    /\ step[c].permission.state = "rejected" =>
         /\ promise[c] = Rejected(step[c].permission.error)
         /\ step[c].subscribe = Unstarted
         /\ ~HasCall(c, "subscribe")
    /\ step[c].subscribe.state = "rejected" =>
         promise[c] = Rejected(step[c].subscribe.error)

C2_Witness ==
  \E c \in InitCalls :
    /\ step[c].register.state = "resolved"
    /\ step[c].permission = Rejected(ErrPermissionNotGranted)
    /\ promise[c].state = "rejected"

(* C3: whenever the host has rejected a capability call of a call and no   *)
(* host call of that call is in flight any more, the promise returned to   *)
(* the caller is rejected.                                                 *)
C3_HostFailureSurfaces ==
  \A c \in Calls :
    ((\E i \in 1 .. Len(hostLog[c]) : hostLog[c][i].state = "rejected") /\ ~InFlight(c))
      => promise[c].state = "rejected"

(* C4: the promise of requestPermission is resolved, with "granted", if    *)
(* and only if the host's permission request resolved with "granted"; for  *)
(* every other status it is rejected with "Notification permission not     *)
(* granted."; a value outside the three statuses is refused like them.     *)
OtherStatusValues == {"prompt", "Granted", Undefined}

C4_PermissionGate ==
  /\ \A s \in OtherStatusValues : PermissionThen(s) = Rejected(ErrPermissionNotGranted)
  /\ \A c \in Calls :
    op[c] = "requestPermission" =>
      /\ \A i \in 1 .. Len(hostLog[c]) :
           hostLog[c][i].state = "resolved" =>
             IF hostLog[c][i].value = "granted"
               THEN promise[c] = Resolved("granted")
               ELSE promise[c] = Rejected(ErrPermissionNotGranted)
      /\ promise[c].state = "resolved" =>
           /\ Len(hostLog[c]) = 1
           /\ hostLog[c][1].state = "resolved"
           /\ hostLog[c][1].value = "granted"

C4_Witness ==
  \E c \in Calls :
    /\ op[c] = "requestPermission"
    /\ Len(hostLog[c]) = 1
    /\ hostLog[c][1].state = "resolved"
    /\ hostLog[c][1].value = "default"
    /\ promise[c].state = "rejected"

(* C5: a subscribeToPush call made with a registration without a push      *)
(* manager, or while the permission status is not "granted", returns a     *)
(* rejected promise and calls no host capability.                          *)
C5_SubscribePreconditions ==
  [][\A c \in Calls, r \in Registrations, o \in Options :
       (CallSubscribeToPush(c, r, o)
          /\ (PushManager(r) = Undefined \/ permission # "granted"))
         => (promise'[c].state = "rejected" /\ hostLog'[c] = << >>)]_vars

C5_Witness ==
  \E c \in Calls :
    /\ op[c] = "subscribeToPush"
    /\ PushManager(regArg[c]) # Undefined
    /\ promise[c] = Rejected(ErrPermissionIsNotGranted)
    /\ hostLog[c] = << >>

(* C6: a subscribeToPush call made with a registration that has a push     *)
(* manager, while the permission status is "granted", calls subscribe on   *)
(* that push manager with the caller's options; and when the host resolves *)
(* that call the returned promise is resolved with the host's subscription.*)
C6_SubscribePassThrough ==
  /\ [][\A c \in Calls, r \in Registrations, o \in Options :
          (CallSubscribeToPush(c, r, o)
             /\ PushManager(r) # Undefined /\ permission = "granted")
            => (/\ hostLog'[c] = << HostCall("subscribe", PushManager(r), o) >>
                /\ promise'[c] = Pending)]_vars
  /\ [](\A c \in Calls :
          (op[c] = "subscribeToPush" /\ Len(hostLog[c]) = 1) =>
            /\ hostLog[c][1].cap = "subscribe"
            /\ hostLog[c][1].arg = options[c]
            /\ hostLog[c][1].on = PushManager(regArg[c])
            /\ hostLog[c][1].state = "resolved" =>
                 promise[c] = Resolved(hostLog[c][1].value))

C6_Witness ==
  \E c \in Calls :
    /\ op[c] = "subscribeToPush"
    /\ options[c] = "optionsB"
    /\ Len(hostLog[c]) = 1
    /\ hostLog[c][1].state = "resolved"
    /\ promise[c] = Resolved("subB")

(* C7: a resolved initializePushNotifications call made exactly three host *)
(* calls, register, requestPermission and subscribe, one each; subscribe   *)
(* was called on the push manager of the registration its own register     *)
(* call resolved with, with the caller's options; and the promise holds    *)
(* the subscription that subscribe call resolved with.                     *)
C7_InitializeSuccess ==
  \A c \in InitCalls :
    promise[c].state = "resolved" =>
      /\ Caps(hostLog[c]) = PipelineOrder
      /\ \A i \in 1 .. 3 : hostLog[c][i].state = "resolved"
      /\ hostLog[c][1].arg = url[c]
      /\ hostLog[c][3].on = PushManager(hostLog[c][1].value)
      /\ hostLog[c][3].arg = options[c]
      /\ promise[c] = Resolved(hostLog[c][3].value)

C7_Witness ==
  \E c \in InitCalls :
    /\ promise[c] = Resolved("subB")
    /\ options[c] = "optionsB"
    /\ hostLog[c][1].value = "regB"

(* C8: in a host without navigator.serviceWorker, registerServiceWorker    *)
(* and initializePushNotifications return a promise rejected with "Service *)
(* Workers are not supported in this browser." and call no host capability *)
(* at all, so no permission prompt is shown.                               *)
C8_NoServiceWorker ==
  \A c \in Calls :
    (~hasServiceWorker /\ op[c] \in {"registerServiceWorker", "initializePushNotifications"})
      => /\ promise[c] = Rejected(ErrServiceWorkerUnsupported)
         /\ hostLog[c] = << >>

C8_Witness ==
  /\ ~hasServiceWorker
  /\ hasNotification
  /\ \E c \in InitCalls : promise[c].state = "rejected"

(* C9: an operation called in a host that lacks a capability the operation *)
(* depends on is rejected with one of the library's "not supported"        *)
(* errors, without a host call: requestPermission and subscribeToPush      *)
(* without Notification, registerServiceWorker without                     *)
(* navigator.serviceWorker, subscribeToPush without a push manager.        *)
UnsupportedErrors ==
  {ErrNotificationsUnsupported, ErrServiceWorkerUnsupported, ErrPushUnsupported}

C9_PresenceChecks ==
  \A c \in Calls :
    LET missing ==
          \/ op[c] = "requestPermission" /\ ~hasNotification
          \/ op[c] = "registerServiceWorker" /\ ~hasServiceWorker
          \/ op[c] = "subscribeToPush" /\ PushManager(regArg[c]) = Undefined
          \/ op[c] = "subscribeToPush" /\ ~hasNotification
    IN  missing =>
          /\ promise[c].state = "rejected"
          /\ promise[c].error \in UnsupportedErrors
          /\ hostLog[c] = << >>

(* C10 as stated: a failed host registration or subscription is reported   *)
(* as a new error of its own kind that carries the host's error as cause.  *)
C10_Wrapped ==
  \A c \in Calls :
    (op[c] \in {"registerServiceWorker", "subscribeToPush"}
       /\ Len(hostLog[c]) = 1 /\ hostLog[c][1].state = "rejected")
      => /\ promise[c].state = "rejected"
         /\ promise[c].error # hostLog[c][1].error
         /\ "cause" \in DOMAIN promise[c].error
         /\ promise[c].error.cause = hostLog[c][1].error

(* C10, amended: when the host's register or subscribe call fails with e,  *)
(* the promise of registerServiceWorker, respectively subscribeToPush, is  *)
(* rejected with e itself: no wrapper, no kind or cause added.             *)
C10_CauseUnwrapped ==
  \A c \in Calls :
    (op[c] \in {"registerServiceWorker", "subscribeToPush"}
       /\ Len(hostLog[c]) = 1 /\ hostLog[c][1].state = "rejected")
      => promise[c] = Rejected(hostLog[c][1].error)

C10_Witness ==
  \E c, d \in Calls :
    /\ op[c] = "registerServiceWorker"
    /\ hostLog[c] # << >> /\ hostLog[c][1].state = "rejected"
    /\ promise[c].state = "rejected"
    /\ op[d] = "subscribeToPush"
    /\ hostLog[d] # << >> /\ hostLog[d][1].state = "rejected"
    /\ promise[d].state = "rejected"

(* The calls that ran requestPermission and got a status other than        *)
(* "granted" from the host.                                                *)
RefusedCalls ==
  {c \in Calls : \E i \in 1 .. Len(hostLog[c]) :
     /\ hostLog[c][i].cap = "requestPermission"
     /\ hostLog[c][i].state = "resolved"
     /\ hostLog[c][i].value # "granted"}

RefusedStatus(c) ==
  LET i == CHOOSE j \in 1 .. Len(hostLog[c]) : hostLog[c][j].cap = "requestPermission"
  IN  hostLog[c][i].value

(* C11 as stated: the rejection of requestPermission after a status other  *)
(* than "granted" carries that status.                                     *)
C11_CarriesStatus ==
  \A c \in RefusedCalls :
    /\ step[c].permission.state = "rejected"
    /\ "status" \in DOMAIN step[c].permission.error
    /\ step[c].permission.error.status = RefusedStatus(c)

(* C11, amended: after any status other than "granted" requestPermission   *)
(* rejects with the same error, "Notification permission not granted.",    *)
(* which does not carry the status: a rejection after "denied" equals one  *)
(* after "default".                                                        *)
C11_StatusNotCarried ==
  \A c, d \in RefusedCalls :
    /\ step[c].permission.state = "rejected"
    /\ "status" \notin DOMAIN step[c].permission.error
    /\ step[c].permission.error = step[d].permission.error
    /\ promise[c] = promise[d]

C11_Witness ==
  \E c, d \in RefusedCalls :
    /\ RefusedStatus(c) = "denied"
    /\ RefusedStatus(d) = "default"
    /\ promise[c].state = "rejected"
    /\ promise[d].state = "rejected"

(* C12: subscribeToPush checks the push manager before the permission: a   *)
(* registration without a push manager is refused with "Push messaging is  *)
(* not supported in this browser." whatever the permission status is, also *)
(* at step 3 of initializePushNotifications.                               *)
C12_PushManagerCheckedFirst ==
  /\ \A c \in Calls :
       (op[c] = "subscribeToPush" /\ PushManager(regArg[c]) = Undefined)
         => promise[c] = Rejected(ErrPushUnsupported) /\ hostLog[c] = << >>
  /\ \A c \in InitCalls :
       (step[c].permission.state = "resolved"
          /\ PushManager(step[c].register.value) = Undefined)
         => promise[c] = Rejected(ErrPushUnsupported) /\ ~HasCall(c, "subscribe")

(* A call just refused for its missing push manager while the permission   *)
(* is not granted either.                                                  *)
C12_Witness ==
  \E c \in Calls :
    /\ op[c] = "subscribeToPush"
    /\ PushManager(regArg[c]) = Undefined
    /\ hasNotification /\ permission = "denied"
    /\ promise[c] = Rejected(ErrPushUnsupported)
    /\ \A d \in Calls : d # c => op[d] = "none"

(* C13: a step in which a call makes its host subscribe call starts in a   *)
(* state where Notification.permission is "granted"; and when the          *)
(* permission request of an initializePushNotifications call resolves      *)
(* "granted" while Notification.permission is not "granted", the call is   *)
(* rejected with "Notification permission is not granted." and makes no    *)
(* host subscribe call.                                                    *)
C13_SubscribeOnlyWhenGranted ==
  [][\A c \in Calls :
       /\ ((\E i \in 1 .. Len(hostLog'[c]) : hostLog'[c][i].cap = "subscribe")
             /\ ~HasCall(c, "subscribe"))
            => (hasNotification /\ permission = "granted")
       /\ (/\ c \in InitCalls
           /\ HasPending(c, "requestPermission")
           /\ Len(hostLog'[c]) >= 2
           /\ hostLog'[c][2].state = "resolved"
           /\ hostLog'[c][2].value = "granted"
           /\ PushManager(step[c].register.value) # Undefined
           /\ permission # "granted")
            => (/\ promise'[c] = Rejected(ErrPermissionIsNotGranted)
                /\ Len(hostLog'[c]) = 2)]_vars

C13_Witness ==
  \E c \in InitCalls :
    /\ Len(hostLog[c]) = 2
    /\ hostLog[c][2].state = "resolved"
    /\ hostLog[c][2].value = "granted"
    /\ PushManager(step[c].register.value) # Undefined
    /\ promise[c] = Rejected(ErrPermissionIsNotGranted)

(* What the model holds of one call. *)
CallState(c) == << op[c], url[c], regArg[c], options[c], step[c], hostLog[c], promise[c] >>

(* C14: with several calls in flight, every initializePushNotifications    *)
(* call makes its own host calls, in its own register, requestPermission,  *)
(* subscribe order, and subscribes on the registration its own register    *)
(* call resolved with, with its own options; and a step that changes one   *)
(* call (a host answer, a failure) leaves every other call as it was.      *)
C14_CallsIndependent ==
  /\ [](\A c \in InitCalls :
          /\ IsPrefix(Caps(hostLog[c]), PipelineOrder)
          /\ hasServiceWorker =>
               /\ Len(hostLog[c]) >= 1
               /\ hostLog[c][1].arg = url[c]
          /\ (step[c].register.state = "resolved" /\ hasNotification) =>
               Len(hostLog[c]) >= 2
          /\ \A i \in 2 .. Len(hostLog[c]) : hostLog[c][i - 1].state = "resolved"
          /\ Len(hostLog[c]) = 3 =>
               /\ hostLog[c][3].on = PushManager(hostLog[c][1].value)
               /\ hostLog[c][3].arg = options[c])
  /\ [][\A c, d \in Calls :
          (c # d /\ CallState(c)' # CallState(c)) => CallState(d)' = CallState(d)]_vars

(* Two calls in flight together, each on its own registration and with its *)
(* own options: one has failed, the other has gone on and resolved.        *)
C14_Witness ==
  \E c, d \in InitCalls :
    /\ c < d
    /\ Len(hostLog[c]) = 3 /\ Len(hostLog[d]) = 3
    /\ hostLog[c][1].value = "regB" /\ hostLog[d][1].value = "regA"
    /\ options[c] # options[d]
    /\ hostLog[d][3].state = "rejected" /\ promise[d].state = "rejected"
    /\ promise[c] = Resolved("subA")

NumCalls(c, cap) == Cardinality({i \in 1 .. Len(hostLog[c]) : hostLog[c][i].cap = cap})

(* The errors with which an executor refuses before any host call. *)
PreconditionErrors ==
  {ErrNotificationsUnsupported, ErrServiceWorkerUnsupported, ErrPushUnsupported,
   ErrPermissionIsNotGranted, ErrNotificationUndefined}

OwnCapability(o) ==
  CASE o = "requestPermission" -> "requestPermission"
    [] o = "registerServiceWorker" -> "register"
    [] o = "subscribeToPush" -> "subscribe"
    [] OTHER -> Undefined

(* C15: a call of a primitive operation makes no host call when it was     *)
(* refused by a precondition and otherwise exactly one, of its own         *)
(* capability; an initializePushNotifications call makes at most one host  *)
(* call of each capability; a failure is followed by no further host call. *)
C15_AtMostOnce ==
  \A c \in Calls :
    /\ \A cap \in {"register", "requestPermission", "subscribe"} : NumCalls(c, cap) <= 1
    /\ op[c] \in {"requestPermission", "registerServiceWorker", "subscribeToPush"} =>
         /\ \A i \in 1 .. Len(hostLog[c]) : hostLog[c][i].cap = OwnCapability(op[c])
         /\ IF promise[c].state = "rejected" /\ promise[c].error \in PreconditionErrors
              THEN hostLog[c] = << >>
              ELSE Len(hostLog[c]) = 1
    /\ \A i \in 1 .. Len(hostLog[c]) :
         hostLog[c][i].state = "rejected" => i = Len(hostLog[c])
    /\ promise[c].state = "rejected" => ~InFlight(c)

(* A failed host call that was not tried again, in a primitive and in      *)
(* initializePushNotifications.                                            *)
C15_Witness ==
  \E c, d \in Calls :
    /\ op[c] = "registerServiceWorker"
    /\ Len(hostLog[c]) = 1 /\ hostLog[c][1].state = "rejected"
    /\ d \in InitCalls
    /\ Len(hostLog[d]) = 3 /\ hostLog[d][3].state = "rejected"

(* C16: while a host call of a call is in flight the promise returned to   *)
(* the caller is pending, and a pending promise changes only in a step in  *)
(* which the host answers the call's host call in flight: with no answer   *)
(* it stays pending, and no later step of the call starts.                 *)
C16_PendingWhileInFlight ==
  /\ [](\A c \in Calls : InFlight(c) => promise[c] = Pending)
  /\ [][\A c \in Calls :
          (op[c] # "none" /\ (promise'[c] # promise[c] \/ hostLog'[c] # hostLog[c]))
            => (/\ InFlight(c)
                /\ hostLog[c][Len(hostLog[c])].state = "pending"
                /\ hostLog'[c][Len(hostLog[c])].state # "pending")]_vars

(* A call whose host call is not answered while another call has been      *)
(* made and has settled: its promise is pending and its later steps are    *)
(* not started.                                                            *)
C16_Witness ==
  \E c, d \in Calls :
    /\ c < d
    /\ c \in InitCalls
    /\ Len(hostLog[c]) = 1 /\ hostLog[c][1].state = "pending"
    /\ promise[c] = Pending
    /\ step[c].permission = Unstarted /\ step[c].subscribe = Unstarted
    /\ Settled(promise[d]) /\ hostLog[d] # << >>

(* C17: once the host has answered every host call a call has made, the    *)
(* promise returned to the caller is settled.                              *)
C17_SettledWhenHostDone ==
  \A c \in Calls :
    (op[c] # "none" /\ ~InFlight(c)) => Settled(promise[c])

(* C18: a settled promise keeps its outcome in every later step, whatever  *)
(* the host delivers then; a resolved promise holds no error and a         *)
(* rejected one no value.                                                  *)
C18_SettlesOnce ==
  /\ [](\A c \in Calls :
          /\ promise[c].state = "resolved" => promise[c].error = NoError
          /\ promise[c].state = "rejected" =>
               promise[c].value = Undefined /\ promise[c].error # NoError
          /\ promise[c].state \in {"unstarted", "pending"} => promise[c] \in {Unstarted, Pending})
  /\ [][\A c \in Calls :
          /\ Settled(promise[c]) => promise'[c] = promise[c]
          /\ \A k \in {"register", "permission", "subscribe"} :
               Settled(step[c][k]) => step'[c][k] = step[c][k]]_vars

(* A resolved and a rejected promise, each settled by a host answer, with  *)
(* the host's permission changed since.                                    *)
C18_Witness ==
  \E c, d \in Calls :
    /\ op[c] = "subscribeToPush" /\ promise[c].state = "resolved"
    /\ op[d] = "subscribeToPush" /\ promise[d].state = "rejected"
    /\ Len(hostLog[d]) = 1 /\ hostLog[d][1].state = "rejected"
    /\ permission # "granted"

=============================================================================
